---- MODULE Spec2Model ----
(***************************************************************************)
(* Model of pkg/compliance/checks/kubeapiserver_check.go: construction of  *)
(* a kubeApiserverCheck, the query dispatch of Run and the per-document    *)
(* field extraction of reportResource.                                     *)
(***************************************************************************)
EXTENDS Integers, Sequences, FiniteSets

\* ---------------------------------------------------------------- bounds
MaxDocs == 2
MaxRules == 2

\* ------------------------------------------------------------- constants
kubeResourceNameKey == "kube_resource_name"
kubeResourceGroupKey == "kube_resource_group"
kubeResourceVersionKey == "kube_resource_version"
kubeResourceNamespaceKey == "kube_resource_namespace"
kubeResourceKindKey == "kube_resource_kind"
PropertyKindJSONQuery == "jsonQuery"

MetadataKeys ==
  {kubeResourceKindKey, kubeResourceGroupKey, kubeResourceVersionKey,
   kubeResourceNamespaceKey, kubeResourceNameKey}

\* ---------------------------------------------------------------- inputs
Kinds == {"", "pods"}
Versions == {"", "v1beta1"}
Verbs == {"", "get", "list", "watch"}
ResourceNames == {"", "nginx"}
Paths == {"spec.image", "status.hostIP"}
AsNames == {"", kubeResourceNameKey}
Literals == {"", "bar"}

\* what the query engine answers for one path of one document
QueryFound == [value |-> "baz", found |-> TRUE, err |-> FALSE]
QueryNotFound == [value |-> "", found |-> FALSE, err |-> FALSE]
QueryError == [value |-> "", found |-> FALSE, err |-> TRUE]
QueryResults == {QueryFound, QueryNotFound, QueryError}

\* the self-describing metadata of the documents the cluster holds
Metas ==
  {[Kind |-> "Pod", Group |-> "core", Version |-> "v1",
    Namespace |-> "default", Name |-> "nginx"],
   [Kind |-> "Deployment", Group |-> "apps", Version |-> "v2",
    Namespace |-> "kube-system", Name |-> "dns"]}

\* the structured content of the documents, as the query engine sees it
Objects ==
  {[x \in Paths |-> IF x = "spec.image" THEN QueryFound ELSE QueryNotFound],
   [x \in Paths |-> IF x = "spec.image" THEN QueryFound ELSE QueryError],
   [x \in Paths |-> IF x = "spec.image" THEN QueryNotFound ELSE QueryFound]}

Documents == [meta : Metas, Object : Objects]

ReportedFields ==
  [Kind : {PropertyKindJSONQuery}, Property : {"spec.image"},
   As : AsNames, Value : Literals]
    \cup [Kind : {PropertyKindJSONQuery}, Property : {"status.hostIP"},
          As : {""}, Value : {""}]
    \cup [Kind : {"attribute"}, Property : {"spec.image"}, As : {""}, Value : {""}]

SeqsUpTo(S, n) == UNION {[1..k -> S] : k \in 0..n}

KubernetesResources ==
  [Kind : Kinds, Version : Versions,
   APIRequest : [Verb : Verbs, ResourceName : ResourceNames],
   Report : SeqsUpTo(ReportedFields, MaxRules)]

\* ----------------------------------------------------------------- state
VARIABLES
  decl,       \* the declaration handed to newKubeapiserverCheck
  check,      \* the kubeResource held by the check (NoCheck when none)
  pc,         \* "new", "rejected", "ready", "range", "returned"
  resources,  \* the documents the query of the current Run returned
  i,          \* index of the document reportResource is working on
  j,          \* index of the report field being evaluated
  kv,         \* the KVMap of the current reportResource call
  reported,   \* records the reporter received during the current Run
  reportedFor,\* for each reported record, the index of its document
  apiCalls,   \* cluster API calls issued during the current Run
  err         \* the error Run returned ("nil" for none)

vars ==
  <<decl, check, pc, resources, i, j, kv, reported, reportedFor, apiCalls, err>>

NoCheck == [Kind |-> "", Version |-> "",
            APIRequest |-> [Verb |-> "", ResourceName |-> ""], Report |-> <<>>]
EmptyKV == <<>>

\* ------------------------------------------------------------ KVMap ops
Put(m, k, v) == [x \in (DOMAIN m) \cup {k} |-> IF x = k THEN v ELSE m[x]]
Size(m) == Cardinality(DOMAIN m)

\* ---------------------------------------------------------- construction
\* variant: the resource name of a get is demanded at construction already
constructionError_strict(kubeResource) ==
  IF Len(kubeResource.Kind) = 0 THEN "resource kind is empty"
  ELSE IF Len(kubeResource.APIRequest.Verb) = 0 THEN "action verb is empty"
  ELSE IF kubeResource.APIRequest.Verb = "get"
          /\ Len(kubeResource.APIRequest.ResourceName) = 0
    THEN "resource name is empty"
  ELSE "nil"

constructionError(kubeResource) ==
  IF Len(kubeResource.Kind) = 0 THEN "resource kind is empty"
  ELSE IF Len(kubeResource.APIRequest.Verb) = 0 THEN "action verb is empty"
  ELSE "nil"

\* variant: an empty version is left as declared
defaultVersion_keeps(kubeResource) == kubeResource

defaultVersion(kubeResource) ==
  IF Len(kubeResource.Version) = 0
    THEN [kubeResource EXCEPT !.Version = "v1"]
    ELSE kubeResource

newKubeapiserverCheck ==
  /\ pc = "new"
  /\ \E kubeResource \in KubernetesResources :
       /\ decl' = kubeResource
       /\ IF constructionError(kubeResource) # "nil"
            THEN /\ check' = NoCheck
                 /\ pc' = "rejected"
                 /\ err' = constructionError(kubeResource)
            ELSE /\ check' = defaultVersion(kubeResource)
                 /\ pc' = "ready"
                 /\ err' = "nil"
  /\ UNCHANGED <<resources, i, j, kv, reported, reportedFor, apiCalls>>

\* ------------------------------------------------------------------- Run
\* Run is invoked on a constructed check that is not running.
RunEntry == pc = "ready"

\* a Run starts with its own locals; nothing was reported or called yet
RunFresh ==
  /\ i' = 1
  /\ j' = 1
  /\ kv' = EmptyKV
  /\ UNCHANGED <<reported, reportedFor>>

RunFail(calls, e) ==
  /\ apiCalls' = calls
  /\ resources' = <<>>
  /\ err' = e
  /\ pc' = "returned"

RunRange(calls, docs) ==
  /\ apiCalls' = calls
  /\ resources' = docs
  /\ err' = "nil"
  /\ pc' = "range"

\* the cluster API answers a call with an error or with documents
Call(op, failed) == [op |-> op, failed |-> failed]

\* variant: the resource name is looked at only after the fetch was issued
RunGet_callsFirst ==
  /\ RunEntry
  /\ check.APIRequest.Verb = "get"
  /\ RunFresh
  /\ \/ RunFail(<<Call("get", TRUE)>>, "unable to get")
     \/ /\ Len(check.APIRequest.ResourceName) = 0
        /\ RunFail(<<Call("get", FALSE)>>, "get without resource name")
     \/ /\ Len(check.APIRequest.ResourceName) # 0
        /\ \E resource \in Documents :
             RunRange(<<Call("get", FALSE)>>, <<resource>>)
  /\ UNCHANGED <<decl, check>>

\* case "get"
RunGet ==
  /\ RunEntry
  /\ check.APIRequest.Verb = "get"
  /\ RunFresh
  /\ IF Len(check.APIRequest.ResourceName) = 0
       THEN RunFail(<<>>, "get without resource name")
       ELSE \/ RunFail(<<Call("get", TRUE)>>, "unable to get")
            \/ \E resource \in Documents :
                 RunRange(<<Call("get", FALSE)>>, <<resource>>)
  /\ UNCHANGED <<decl, check>>

\* variant: a failed listing is tried a second time
RunList_retries ==
  /\ RunEntry
  /\ check.APIRequest.Verb = "list"
  /\ RunFresh
  /\ \/ RunFail(<<Call("list", TRUE), Call("list", TRUE)>>, "unable to list")
     \/ \E items \in SeqsUpTo(Documents, MaxDocs) :
          \/ RunRange(<<Call("list", FALSE)>>, items)
          \/ RunRange(<<Call("list", TRUE), Call("list", FALSE)>>, items)
  /\ UNCHANGED <<decl, check>>

\* case "list"
RunList ==
  /\ RunEntry
  /\ check.APIRequest.Verb = "list"
  /\ RunFresh
  /\ \/ RunFail(<<Call("list", TRUE)>>, "unable to list")
     \/ \E items \in SeqsUpTo(Documents, MaxDocs) :
          RunRange(<<Call("list", FALSE)>>, items)
  /\ UNCHANGED <<decl, check>>

\* variant: a default case that rejects the verb
RunOtherVerb_fails ==
  /\ RunEntry
  /\ check.APIRequest.Verb \notin {"get", "list"}
  /\ RunFresh
  /\ RunFail(<<>>, "unsupported verb")
  /\ UNCHANGED <<decl, check>>

\* the switch has no default: any other verb leaves resources nil
RunOtherVerb ==
  /\ RunEntry
  /\ check.APIRequest.Verb \notin {"get", "list"}
  /\ RunFresh
  /\ RunRange(<<>>, <<>>)
  /\ UNCHANGED <<decl, check>>

\* -------------------------------------------------------- reportResource
\* the query engine's answer for a path of a document: value, found, err
RunSingleOutput(property, object) == object[property]

reportName(field) ==
  IF Len(field.As) > 0 THEN field.As ELSE field.Property

\* variant: the extracted value is kept although a literal is given
reportValue_extractedWins(field, extracted) == extracted

reportValue(field, extracted) ==
  IF Len(field.Value) > 0 THEN field.Value ELSE extracted

\* variant: a field of an unknown kind is passed over
extractField_skipsUnknown(m, field, p) ==
  IF field.Kind = PropertyKindJSONQuery
    THEN LET q == RunSingleOutput(field.Property, p.Object)
         IN IF q.err THEN [kv |-> m, err |-> "json query error"]
            ELSE IF ~q.found THEN [kv |-> m, err |-> "nil"]
            ELSE [kv |-> Put(m, reportName(field), reportValue(field, q.value)),
                  err |-> "nil"]
    ELSE [kv |-> m, err |-> "nil"]

\* the body of the loop over c.kubeResource.Report: the record after the
\* field, and the error reportResource returns because of it
extractField(m, field, p) ==
  IF field.Kind = PropertyKindJSONQuery
    THEN LET q == RunSingleOutput(field.Property, p.Object)
         IN IF q.err THEN [kv |-> m, err |-> "json query error"]
            ELSE IF ~q.found THEN [kv |-> m, err |-> "nil"]
            ELSE [kv |-> Put(m, reportName(field), reportValue(field, q.value)),
                  err |-> "nil"]
    ELSE [kv |-> m, err |-> "unsupported kind"]

\* variant: the metadata is added to an empty record as well
injectMetadata_always(m, p) ==
  Put(Put(Put(Put(Put(m,
    kubeResourceKindKey, p.meta.Kind),
    kubeResourceGroupKey, p.meta.Group),
    kubeResourceVersionKey, p.meta.Version),
    kubeResourceNamespaceKey, p.meta.Namespace),
    kubeResourceNameKey, p.meta.Name)

\* variant: a key an extraction rule already wrote is not overwritten
PutIfAbsent(m, k, v) == IF k \in DOMAIN m THEN m ELSE Put(m, k, v)
injectMetadata_keepsExisting(m, p) ==
  IF Size(m) > 0
    THEN PutIfAbsent(PutIfAbsent(PutIfAbsent(PutIfAbsent(PutIfAbsent(m,
           kubeResourceKindKey, p.meta.Kind),
           kubeResourceGroupKey, p.meta.Group),
           kubeResourceVersionKey, p.meta.Version),
           kubeResourceNamespaceKey, p.meta.Namespace),
           kubeResourceNameKey, p.meta.Name)
    ELSE m

injectMetadata(m, p) ==
  IF Size(m) > 0
    THEN Put(Put(Put(Put(Put(m,
           kubeResourceKindKey, p.meta.Kind),
           kubeResourceGroupKey, p.meta.Group),
           kubeResourceVersionKey, p.meta.Version),
           kubeResourceNamespaceKey, p.meta.Namespace),
           kubeResourceNameKey, p.meta.Name)
    ELSE m

\* baseCheck.report: an empty record is dropped, any other goes to the reporter
report(sink, m) == IF Size(m) = 0 THEN sink ELSE Append(sink, m)

\* variant: a failing field ends the document only, Run goes on with the next
reportResourceField_skipsDocument ==
  /\ pc = "range"
  /\ i <= Len(resources)
  /\ j <= Len(check.Report)
  /\ LET r == extractField(kv, check.Report[j], resources[i])
     IN IF r.err # "nil"
          THEN /\ kv' = EmptyKV
               /\ i' = i + 1
               /\ j' = 1
               /\ UNCHANGED <<pc, err>>
          ELSE /\ kv' = r.kv
               /\ j' = j + 1
               /\ UNCHANGED <<pc, err, i>>
  /\ UNCHANGED <<decl, check, resources, reported, reportedFor, apiCalls>>

\* one iteration of the loop over c.kubeResource.Report; an error leaves
\* reportResource and Run at once
reportResourceField ==
  /\ pc = "range"
  /\ i <= Len(resources)
  /\ j <= Len(check.Report)
  /\ LET r == extractField(kv, check.Report[j], resources[i])
     IN IF r.err # "nil"
          THEN /\ err' = r.err
               /\ pc' = "returned"
               /\ UNCHANGED <<kv, j>>
          ELSE /\ kv' = r.kv
               /\ j' = j + 1
               /\ UNCHANGED <<pc, err>>
  /\ UNCHANGED <<decl, check, resources, i, reported, reportedFor, apiCalls>>

\* after the loop: metadata, c.report, and on to the next document
reportResourceEmit ==
  /\ pc = "range"
  /\ i <= Len(resources)
  /\ j > Len(check.Report)
  /\ reported' = report(reported, injectMetadata(kv, resources[i]))
  /\ reportedFor' = IF reported' # reported THEN Append(reportedFor, i) ELSE reportedFor
  /\ kv' = EmptyKV
  /\ i' = i + 1
  /\ j' = 1
  /\ UNCHANGED <<decl, check, pc, resources, apiCalls, err>>

\* every document went through reportResource: return nil
RunReturn ==
  /\ pc = "range"
  /\ i > Len(resources)
  /\ pc' = "returned"
  /\ UNCHANGED <<decl, check, resources, i, j, kv, reported, reportedFor, apiCalls, err>>

\* the scheduler takes the instance back for another Run: the locals of the
\* finished Run are gone and the recordings of the reporter and of the cluster
\* API start afresh
Reschedule ==
  /\ pc = "returned"
  /\ pc' = "ready"
  /\ resources' = <<>>
  /\ i' = 1
  /\ j' = 1
  /\ kv' = EmptyKV
  /\ reported' = <<>>
  /\ reportedFor' = <<>>
  /\ apiCalls' = <<>>
  /\ err' = "nil"
  /\ UNCHANGED <<decl, check>>

Init ==
  /\ decl = NoCheck
  /\ check = NoCheck
  /\ pc = "new"
  /\ resources = <<>>
  /\ i = 1
  /\ j = 1
  /\ kv = EmptyKV
  /\ reported = <<>>
  /\ reportedFor = <<>>
  /\ apiCalls = <<>>
  /\ err = "nil"

Next ==
  \/ newKubeapiserverCheck
  \/ RunGet
  \/ RunList
  \/ RunOtherVerb
  \/ reportResourceField
  \/ reportResourceEmit
  \/ RunReturn
  \/ Reschedule

Spec == Init /\ [][Next]_vars
\* ------------------------------------------------------------ properties
InRun == pc \in {"range", "returned"}
Fields == 1..Len(check.Report)
FieldFails(field, p) ==
  field.Kind # PropertyKindJSONQuery \/ p.Object[field.Property].err
FieldResolves(field, p) ==
  /\ field.Kind = PropertyKindJSONQuery
  /\ ~p.Object[field.Property].err
  /\ p.Object[field.Property].found
DocFails(p) == \E n \in Fields : FieldFails(check.Report[n], p)
DocResolves(p) == \E n \in Fields : FieldResolves(check.Report[n], p)
FailingDocs == {d \in 1..Len(resources) : DocFails(resources[d])}
FirstFailing == CHOOSE k \in FailingDocs : \A d \in FailingDocs : k <= d
ExtractionErrors == {"json query error", "unsupported kind"}
HasUnsupported(kubeResource) ==
  \E n \in 1..Len(kubeResource.Report) :
    kubeResource.Report[n].Kind # PropertyKindJSONQuery
GetWithoutName(kubeResource) ==
  /\ kubeResource.APIRequest.Verb = "get"
  /\ kubeResource.APIRequest.ResourceName = ""

ResolvedBefore(k) ==
  LET idx == [d \in 1..(k - 1) |-> d]
      Test(d) == DocResolves(resources[d])
  IN SelectSeq(idx, Test)

GetWithoutNameFailsBeforeAnyCall ==
  (InRun /\ GetWithoutName(check)) =>
    /\ pc = "returned"
    /\ err # "nil"
    /\ apiCalls = <<>>
    /\ reported = <<>>

GetWithoutNameReturned ==
  /\ pc = "returned"
  /\ GetWithoutName(check)
  /\ err = "get without resource name"

\* C4: a failed cluster API call ends the Run with an error, with no reporter
\* call, and it is the only call issued (no retry).
FailedCallIsTerminal ==
  (\E n \in 1..Len(apiCalls) : apiCalls[n].failed) =>
    /\ pc = "returned"
    /\ err # "nil"
    /\ reported = <<>>
    /\ Len(apiCalls) = 1
    /\ apiCalls[1].op = check.APIRequest.Verb

ListFailed ==
  /\ pc = "returned"
  /\ apiCalls = <<Call("list", TRUE)>>
  /\ err = "unable to list"

\* C5: construction fails exactly when kind is empty or the verb is empty.
ConstructionFailsIffKindOrVerbEmpty ==
  pc # "new" =>
    /\ (pc = "rejected") <=> (decl.Kind = "" \/ decl.APIRequest.Verb = "")
    /\ (pc = "rejected") => (err # "nil")

\* a get without resource name and with a rule of an unknown kind is accepted
LaxDeclarationAccepted ==
  /\ pc = "ready"
  /\ GetWithoutName(decl)
  /\ HasUnsupported(decl)

\* C6: the held spec is the declaration with an empty version replaced by
\* "v1": its version is never empty, and it stays so whatever Runs happen.
HeldSpecIsNormalisedDeclaration ==
  pc \notin {"new", "rejected"} =>
    /\ check.Version # ""
    /\ check.Version = (IF decl.Version = "" THEN "v1" ELSE decl.Version)
    /\ check.Kind = decl.Kind
    /\ check.APIRequest = decl.APIRequest
    /\ check.Report = decl.Report

VersionDefaultedAndRun ==
  /\ pc = "returned"
  /\ decl.Version = ""
  /\ check.Version = "v1"
  /\ Len(reported) > 0

\* C7: a jsonQuery rule whose query reports found writes exactly one entry,
\* keyed by rule.as when set and by rule.property otherwise, holding
\* rule.value when set and the extracted value otherwise; when the query
\* reports not-found the record stays as it is and no error is raised.
JSONQueryRuleContribution ==
  [][ (/\ pc = "range"
       /\ i <= Len(resources)
       /\ j <= Len(check.Report)
       /\ check.Report[j].Kind = PropertyKindJSONQuery
       /\ ~resources[i].Object[check.Report[j].Property].err) =>
      LET field == check.Report[j]
          q == resources[i].Object[field.Property]
          key == IF field.As # "" THEN field.As ELSE field.Property
          val == IF field.Value # "" THEN field.Value ELSE q.value
      IN /\ err' = "nil"
         /\ pc' = "range"
         /\ IF q.found
              THEN /\ DOMAIN kv' = (DOMAIN kv) \cup {key}
                   /\ kv'[key] = val
                   /\ \A x \in (DOMAIN kv) \ {key} : kv'[x] = kv[x]
              ELSE kv' = kv ]_vars

\* the first rule, with both as and value set, has written as = value
RenamedLiteralWritten ==
  /\ pc = "range"
  /\ j = 2
  /\ check.Report[1].Kind = PropertyKindJSONQuery
  /\ check.Report[1].As = kubeResourceNameKey
  /\ check.Report[1].Value = "bar"
  /\ kv = [x \in {kubeResourceNameKey} |-> "bar"]

\* C8: every reported record holds the five metadata keys, each with the
\* metadata of the document it was made from, also when a rule wrote to one
\* of these keys.
ReportedRecordsCarryMetadata ==
  \A n \in 1..Len(reported) :
    /\ n <= Len(reportedFor)
    /\ reportedFor[n] \in 1..Len(resources)
    /\ LET m == resources[reportedFor[n]].meta
           r == reported[n]
       IN /\ MetadataKeys \subseteq DOMAIN r
          /\ r[kubeResourceKindKey] = m.Kind
          /\ r[kubeResourceGroupKey] = m.Group
          /\ r[kubeResourceVersionKey] = m.Version
          /\ r[kubeResourceNamespaceKey] = m.Namespace
          /\ r[kubeResourceNameKey] = m.Name

\* a record was reported whose only rule wrote to kube_resource_name
RuleWroteMetadataKey ==
  /\ pc = "returned"
  /\ Len(reported) = 1
  /\ Len(check.Report) = 1
  /\ check.Report[1].As = kubeResourceNameKey

\* C9: with a verb that is neither get nor list, Run succeeds with no
\* documents, no call to the cluster API and no reporter call.
UnknownVerbYieldsNothing ==
  (InRun /\ check.APIRequest.Verb \notin {"get", "list"}) =>
    /\ err = "nil"
    /\ resources = <<>>
    /\ apiCalls = <<>>
    /\ reported = <<>>

WatchReturned ==
  /\ pc = "returned"
  /\ check.APIRequest.Verb = "watch"
  /\ Len(check.Report) > 0

\* C10: a rule of a kind other than jsonQuery does not fail construction; a
\* Run whose query returns no document succeeds with no reporter call; a Run
\* whose query returns documents fails at the first one with the unsupported
\* kind error, unless an earlier rule fails on that document.
QuerySucceeded ==
  /\ ~GetWithoutName(check)
  /\ \A n \in 1..Len(apiCalls) : ~apiCalls[n].failed

UnsupportedKindFoundAtEvaluation ==
  /\ (pc # "new" /\ HasUnsupported(decl)
        /\ decl.Kind # "" /\ decl.APIRequest.Verb # "") => pc # "rejected"
  /\ (pc = "returned" /\ HasUnsupported(check)) =>
       IF resources = <<>>
         THEN QuerySucceeded => (err = "nil" /\ reported = <<>>)
         ELSE LET u == CHOOSE n \in Fields :
                         /\ check.Report[n].Kind # PropertyKindJSONQuery
                         /\ \A k \in 1..(n - 1) :
                              check.Report[k].Kind = PropertyKindJSONQuery
              IN (\A n \in 1..(u - 1) :
                    ~resources[1].Object[check.Report[n].Property].err) =>
                   /\ err = "unsupported kind"
                   /\ i = 1
                   /\ reported = <<>>

\* the second rule is of an unknown kind and ended the Run on the first of
\* two documents, after the first rule had found a value
UnsupportedKindEndedRun ==
  /\ pc = "returned"
  /\ err = "unsupported kind"
  /\ i = 1
  /\ Len(resources) = 2
  /\ Size(kv) > 0
====
